---------------------------- MODULE Spec2Model ----------------------------
(***************************************************************************)
(* Model of ai_coding_agent/core/performance.py: LRUCache,                 *)
(* PerformanceMonitor and the performance_monitor wrapper, BatchProcessor, *)
(* AsyncPoolExecutor and ResourceManager.                                  *)
(*                                                                         *)
(* Each class is a component of its own (no shared mutable state), so each *)
(* has its own specification: SpecCache, SpecMonitor, SpecBatch (and       *)
(* SpecBatchErr, with callbacks that are cancelled), SpecPool (and         *)
(* SpecShutdown, with a shutdown call), SpecWatchdog.  A specification     *)
(* moves the variables of its component and leaves the others at their     *)
(* constructed values.                                                     *)
(***************************************************************************)
EXTENDS Integers, Sequences, FiniteSets, TLC

VARIABLES
    \* ---- LRUCache (performance.py:51-239)
    cfg,              \* constructor arguments: max_size, max_memory_mb, default_ttl
    cache,            \* self._cache: key -> CacheEntry
    access_order,     \* self._access_order: list of keys, LRU first
    current_memory,   \* self._current_memory
    hits,             \* self.hits
    misses,           \* self.misses
    evictions,        \* self.evictions
    now,              \* the clock read by datetime.now()
    lastOp,           \* the last cache call: its arguments, return value, evicted keys
    nops,             \* number of cache calls made so far
    nkeys,            \* number of distinct keys the callers have used so far
    ngets,            \* number of get calls made so far
    \* ---- PerformanceMonitor (performance.py:242-346)
    max_metrics,      \* self.max_metrics
    metrics,          \* self.metrics: the stored samples, oldest first
    recorded,         \* every sample ever passed to record_operation, in order
    calls,            \* the calls of functions wrapped by performance_monitor
    \* ---- BatchProcessor (performance.py:440-521)
    batch_size,       \* self.batch_size
    pending_requests, \* self.pending_requests: the live queue of request numbers
    processing,       \* self._processing
    scheduled,        \* _process_batch tasks created and not yet started
    cycles,           \* _process_batch invocations past the guard: pc and batch
    ncycles,          \* number of _process_batch invocations that passed the guard
    callback,         \* request -> what its callback does: "return" or "raise"
    future,           \* request -> state of the future add_request awaits
    running,          \* requests whose _process_single_request task is unfinished
    batches,          \* every batch snapshot taken, in order
    crashed,          \* requests whose _process_single_request task ended with an error
    \* ---- AsyncPoolExecutor (performance.py:524-582)
    max_workers,      \* self.max_workers
    permits,          \* the value of self.semaphore
    tasks,            \* the argument of submit_all: what each task does
    pc,               \* where each submit call of submit_all stands
    active_tasks,     \* self.active_tasks
    outcome,          \* what each finished submit call returned or raised
    callbacks,        \* finished submit calls gather has not looked at yet
    nfinished,        \* gather's count of finished submit calls
    outer,            \* the future gather returns to submit_all
    returned,         \* what submit_all has handed back to its caller
    finish_order,     \* the submit calls in the order in which they finished
    shut,             \* the shutdown call: where it stands, its wait argument
    \* ---- ResourceManager (performance.py:635-682)
    monitoring,       \* self.monitoring
    loops,            \* the _monitor_resources tasks created, in order
    \* ---- RateLimiter (security.py:510-574)
    max_requests,     \* self.max_requests
    time_window,      \* self.time_window
    requests,         \* self.requests: identifier -> list of timestamps
    current_time,     \* the clock read by time.time()
    served,           \* every is_allowed call made: identifier, time, returned value
    \* ---- coroutines calling one LRUCache concurrently
    lock,             \* self._lock: the caller that holds it, 0 when free
    co,               \* per caller: its call, its place in the body, its result
    order,            \* the callers in the order in which they returned
    seq,              \* a cache on which the same calls run one after the other
    \* ---- timed_cache
    wrapped,          \* the calls of the wrapper, in order of arrival
    invoked           \* the arguments of every invocation of the wrapped function

cacheVars == <<cfg, cache, access_order, current_memory, hits, misses,
               evictions, now, lastOp, nops, nkeys, ngets>>

monVars == <<max_metrics, metrics, recorded, calls>>

batchVars == <<batch_size, pending_requests, processing, scheduled, cycles,
               ncycles, callback, future, running, batches, crashed>>

poolVars == <<max_workers, permits, tasks, pc, active_tasks, outcome,
              callbacks, nfinished, outer, returned, finish_order, shut>>

wdVars == <<monitoring, loops>>

rlVars == <<max_requests, time_window, requests, current_time, served>>

coVars == <<lock, co, order, seq>>
memoVars == <<wrapped, invoked>>

vars == <<cacheVars, monVars, batchVars, poolVars, wdVars, rlVars, coVars,
          memoVars>>

---------------------------------------------------------------------------
(* Bounds of the model *)

\* number of distinct cache keys
NumKeys == 3
\* largest max_size a cache is constructed with
MaxEntries == 2
\* number of cache calls in a run
MaxOps == 4
\* last clock value
MaxTime == 1
\* largest max_metrics a monitor is constructed with
MaxCapacity == 2
\* number of record_operation calls in a run
MaxRecords == 5
\* number of calls of wrapped functions in a run
MaxCalls == 2
\* largest batch_size a batch processor is constructed with
MaxBatchSize == 2
\* number of add_request calls in a run
MaxRequests == 3
\* largest max_workers an executor is constructed with
MaxWorkers == 2
\* number of tasks handed to submit_all
NumTasks == 3
\* number of start_monitoring calls in a run
MaxStarts == 2
\* number of checks a _monitor_resources loop makes in a run
MaxChecks == 2
\* number of distinct identifiers the rate limiter sees
NumIdentifiers == 2
\* largest max_requests a rate limiter is constructed with
MaxLimit == 2
\* largest time_window a rate limiter is constructed with
MaxWindow == 2
\* last value of the rate limiter's clock
MaxClock == 3
\* number of is_allowed calls in a run
MaxServed == 4
\* number of calls of a function wrapped by timed_cache
MaxWrapped == 3
\* number of coroutines that call the cache concurrently
NumCallers == 3

---------------------------------------------------------------------------
(* Python helpers *)

\* Python's None, and a value that is not None
None == <<>>
Some(x) == <<x>>

\* key in list
InList(s, x) == \E i \in 1..Len(s) : s[i] = x

\* list.remove(x): removes the first occurrence (callers test membership first)
RECURSIVE ListRemove(_, _)
ListRemove(s, x) ==
    IF s = <<>> THEN <<>>
    ELSE IF Head(s) = x THEN Tail(s)
    ELSE <<Head(s)>> \o ListRemove(Tail(s), x)

\* s[start:], for a start index of either sign
PySliceFrom(s, start) ==
    LET first == IF start < 0
                 THEN (IF Len(s) + start < 0 THEN 0 ELSE Len(s) + start)
                 ELSE (IF start > Len(s) THEN Len(s) ELSE start)
    IN  SubSeq(s, first + 1, Len(s))

\* a future that is not done, an awaited call that has not ended
Pending == [kind |-> "pending"]
IsPending(f) == f.kind = "pending"

\* del d[key]
DictDel(d, k) == [x \in (DOMAIN d) \ {k} |-> d[x]]

\* d[key] = v
DictPut(d, k, v) == [x \in (DOMAIN d) \cup {k} |-> IF x = k THEN v ELSE d[x]]

---------------------------------------------------------------------------
(* LRUCache *)

Keys == 1..NumKeys

\* values stored by the callers: text of a given UTF-8 length, or a number
Values == { [kind |-> "str", len |-> 1200000],
            [kind |-> "num", len |-> 0] }

\* ttl arguments of set (seconds); None is the default argument
Ttls == {None, Some(0)}

\* LRUCache._estimate_size, for the values above
_estimate_size(obj) ==
    IF obj.kind = "str" THEN obj.len ELSE 8

max_size == cfg.max_size
max_memory_bytes == cfg.max_memory_mb * 1024 * 1024
default_ttl == cfg.default_ttl

\* Expired with the comparison the wrong way round
ExpiredReversed(entry, t) == entry.expires_at # None /\ t < entry.expires_at[1]

\* entry.expires_at and datetime.now() > entry.expires_at
Expired(entry, t) == entry.expires_at # None /\ t > entry.expires_at[1]

\* _remove_entry leaving the access-order list alone
RemoveFromDictOnly(st, key) ==
    LET c1 == IF key \in DOMAIN st.c THEN DictDel(st.c, key) ELSE st.c
        m1 == IF key \in DOMAIN st.c THEN st.m - st.c[key].size_bytes ELSE st.m
    IN  [st EXCEPT !.c = c1, !.m = m1]

\* _remove_entry without `self._current_memory -= entry.size_bytes`
RemoveKeepsMemory(st, key) ==
    LET c1 == IF key \in DOMAIN st.c THEN DictDel(st.c, key) ELSE st.c
        o1 == IF InList(st.o, key) THEN ListRemove(st.o, key) ELSE st.o
    IN  [st EXCEPT !.c = c1, !.o = o1]

\* LRUCache._remove_entry on the state st = [c, o, m]
_remove_entry(st, key) ==
    LET c1 == IF key \in DOMAIN st.c THEN DictDel(st.c, key) ELSE st.c
        m1 == IF key \in DOMAIN st.c THEN st.m - st.c[key].size_bytes ELSE st.m
        o1 == IF InList(st.o, key) THEN ListRemove(st.o, key) ELSE st.o
    IN  [st EXCEPT !.c = c1, !.m = m1, !.o = o1]

\* NeedSpace letting the cache grow one entry past max_size
NeedSpaceOffByOne(st, size_bytes) ==
    \/ Cardinality(DOMAIN st.c) > max_size
    \/ st.m + size_bytes > max_memory_bytes

\* the condition of set's make-space loop
NeedSpace(st, size_bytes) ==
    \/ Cardinality(DOMAIN st.c) >= max_size
    \/ st.m + size_bytes > max_memory_bytes

\* OldestKey taking the tail of the list: pop() for pop(0)
NewestKey(o) == o[Len(o)]

\* the key set's make-space loop removes next: self._access_order.pop(0)
OldestKey(o) == Head(o)

\* MakeSpace without the count of the evictions
RECURSIVE MakeSpaceUncounted(_, _)
MakeSpaceUncounted(st, size_bytes) ==
    IF ~NeedSpace(st, size_bytes) \/ st.o = <<>> THEN st
    ELSE LET oldest == OldestKey(st.o)
             popped == [st EXCEPT !.o = ListRemove(st.o, oldest)]
             removed == _remove_entry(popped, oldest)
         IN  MakeSpaceUncounted([removed EXCEPT !.out = Append(@, oldest)],
                                size_bytes)

\* set's make-space loop, on st = [c, o, m, ev, out] (out: the keys evicted)
RECURSIVE MakeSpace(_, _)
MakeSpace(st, size_bytes) ==
    IF ~NeedSpace(st, size_bytes) \/ st.o = <<>> THEN st
    ELSE LET oldest == OldestKey(st.o)
             popped == [st EXCEPT !.o = ListRemove(st.o, oldest)]
             removed == _remove_entry(popped, oldest)
         IN  MakeSpace([removed EXCEPT !.ev = @ + 1, !.out = Append(@, oldest)],
                       size_bytes)

\* the expiry set gives a new entry
ExpiresAt(ttl) ==
    IF ttl # None THEN Some(now + ttl[1])
    ELSE IF default_ttl > 0 THEN Some(now + default_ttl)
    ELSE None

\* Touch without the removal of the key from its old place
TouchAppendOnly(o, key) == Append(o, key)

\* the entry after a hit that forgets to count the access
AccessedUncounted(entry) == [entry EXCEPT !.last_accessed = now]

\* the entry after a hit: `entry.last_accessed = ...; entry.access_count += 1`
Accessed(entry) ==
    [entry EXCEPT !.last_accessed = now, !.access_count = @ + 1]

\* the access order after a hit on key
Touch(o, key) == Append(IF InList(o, key) THEN ListRemove(o, key) ELSE o, key)

CacheStep == nops < MaxOps /\ nops' = nops + 1

CacheInit ==
    /\ cfg \in [max_size : 1..MaxEntries, max_memory_mb : {1}, default_ttl : {0, 1}]
    /\ cache = <<>>
    /\ access_order = <<>>
    /\ current_memory = 0
    /\ hits = 0
    /\ misses = 0
    /\ evictions = 0
    /\ now = 0
    /\ lastOp = [op |-> "init"]
    /\ nops = 0
    /\ nkeys = 0
    /\ ngets = 0

\* LRUCache.get(key)
Get(key) ==
    /\ CacheStep
    /\ IF key \notin DOMAIN cache THEN
          /\ misses' = misses + 1
          /\ lastOp' = [op |-> "get", key |-> key, ret |-> None, path |-> "absent"]
          /\ UNCHANGED <<cache, access_order, current_memory, hits>>
       ELSE IF Expired(cache[key], now) THEN
          LET st == _remove_entry([c |-> cache, o |-> access_order,
                                   m |-> current_memory], key)
          IN  /\ cache' = st.c
              /\ access_order' = st.o
              /\ current_memory' = st.m
              /\ misses' = misses + 1
              /\ lastOp' = [op |-> "get", key |-> key, ret |-> None, path |-> "expired"]
              /\ UNCHANGED hits
       ELSE
          /\ cache' = [cache EXCEPT ![key] = Accessed(@)]
          /\ access_order' = Touch(access_order, key)
          /\ hits' = hits + 1
          /\ lastOp' = [op |-> "get", key |-> key, ret |-> Some(cache[key].data),
                        path |-> "hit"]
          /\ UNCHANGED <<current_memory, misses>>
    /\ ngets' = ngets + 1
    /\ UNCHANGED <<cfg, evictions, now>>

\* LRUCache.set(key, value, ttl)
Set(key, value, ttl) ==
    /\ CacheStep
    /\ LET size_bytes == _estimate_size(value)
           st0 == [c |-> cache, o |-> access_order, m |-> current_memory,
                   ev |-> evictions, out |-> <<>>]
           st1 == IF key \in DOMAIN cache THEN _remove_entry(st0, key) ELSE st0
           st2 == MakeSpace(st1, size_bytes)
           entry == [data |-> value, last_accessed |-> now,
                     access_count |-> 0, size_bytes |-> size_bytes,
                     expires_at |-> ExpiresAt(ttl)]
       IN  /\ cache' = DictPut(st2.c, key, entry)
           /\ access_order' = Append(st2.o, key)
           /\ current_memory' = st2.m + size_bytes
           /\ evictions' = st2.ev
           /\ lastOp' = [op |-> "set", key |-> key, value |-> value, ttl |-> ttl,
                         ret |-> None, replaced |-> key \in DOMAIN cache,
                         evicted |-> st2.out]
    /\ UNCHANGED <<cfg, hits, misses, now, ngets>>

\* LRUCache.delete(key)
Delete(key) ==
    /\ CacheStep
    /\ LET st == _remove_entry([c |-> cache, o |-> access_order,
                                m |-> current_memory], key)
       IN  IF key \in DOMAIN cache THEN
              /\ cache' = st.c
              /\ access_order' = st.o
              /\ current_memory' = st.m
              /\ lastOp' = [op |-> "delete", key |-> key, ret |-> TRUE]
           ELSE
              /\ lastOp' = [op |-> "delete", key |-> key, ret |-> FALSE]
              /\ UNCHANGED <<cache, access_order, current_memory>>
    /\ UNCHANGED <<cfg, hits, misses, evictions, now, ngets>>

\* Clear of a cache that forgets its memory accounting
ClearKeepsMemory ==
    /\ CacheStep
    /\ cache' = <<>>
    /\ access_order' = <<>>
    /\ lastOp' = [op |-> "clear", ret |-> None, repeated |-> lastOp.op = "clear"]
    /\ UNCHANGED <<cfg, current_memory, hits, misses, evictions, now, ngets>>

\* LRUCache.clear(); `repeated` tells that the call before was a clear too
Clear ==
    /\ CacheStep
    /\ cache' = <<>>
    /\ access_order' = <<>>
    /\ current_memory' = 0
    /\ lastOp' = [op |-> "clear", ret |-> None, repeated |-> lastOp.op = "clear"]
    /\ UNCHANGED <<cfg, hits, misses, evictions, now, ngets>>

\* ExpiredKeys without the comparison with the clock
KeysWithExpiry == {k \in DOMAIN cache : cache[k].expires_at # None}

\* the keys cleanup_expired collects
ExpiredKeys == {k \in DOMAIN cache : Expired(cache[k], now)}

\* _remove_entry for every key of a set (the removals commute)
RECURSIVE RemoveAll(_, _)
RemoveAll(st, ks) ==
    IF ks = {} THEN st
    ELSE LET k == CHOOSE x \in ks : TRUE
         IN  RemoveAll(_remove_entry(st, k), ks \ {k})

\* LRUCache.cleanup_expired()
CleanupExpired ==
    /\ CacheStep
    /\ LET st == RemoveAll([c |-> cache, o |-> access_order,
                            m |-> current_memory], ExpiredKeys)
       IN  /\ cache' = st.c
           /\ access_order' = st.o
           /\ current_memory' = st.m
           /\ lastOp' = [op |-> "cleanup_expired", ret |-> Cardinality(ExpiredKeys)]
    /\ UNCHANGED <<cfg, hits, misses, evictions, now, ngets>>

\* greatest common divisor of a >= 0 and b > 0
RECURSIVE Gcd(_, _)
Gcd(a, b) == IF a = 0 THEN b ELSE Gcd(b % a, a)

\* Python's a // b for a >= 0, b > 0, as the number it denotes
FloorDiv(a, b) == [num |-> a \div b, den |-> 1]

\* Python's a / b for a >= 0, b > 0: the number it denotes, as a fraction in
\* lowest terms (the counters are far below 2^53, so two quotients are the
\* same float exactly when they are the same fraction)
TrueDiv(a, b) == [num |-> a \div Gcd(a, b), den |-> b \div Gcd(a, b)]

\* hit_rate of LRUCache.get_stats(); the literal 0 is the fraction 0/1
hit_rate ==
    LET total_requests == hits + misses
    IN  IF total_requests > 0 THEN TrueDiv(hits, total_requests)
        ELSE [num |-> 0, den |-> 1]

\* time passes between two calls
Tick ==
    /\ now < MaxTime
    /\ now' = now + 1
    /\ UNCHANGED <<cfg, cache, access_order, current_memory, hits, misses,
                   evictions, lastOp, nops, nkeys, ngets>>

\* Keys are opaque: the code only tests them for equality.  The callers' keys
\* are therefore numbered in the order of their first use.
CallerKeys == {k \in Keys : k <= nkeys + 1}
Uses(k) == nkeys' = IF k > nkeys THEN k ELSE nkeys

\* a cache nobody uses
CacheIdle ==
    /\ cfg = [max_size |-> 1, max_memory_mb |-> 1, default_ttl |-> 0]
    /\ cache = <<>>
    /\ access_order = <<>>
    /\ current_memory = 0
    /\ hits = 0
    /\ misses = 0
    /\ evictions = 0
    /\ now = 0
    /\ lastOp = [op |-> "init"]
    /\ nops = 0
    /\ nkeys = 0
    /\ ngets = 0

\* no coroutine shares the cache
CallersIdle ==
    /\ lock = 0
    /\ co = <<>>
    /\ order = <<>>
    /\ seq = <<>>

\* no function is wrapped by timed_cache
MemoIdle ==
    /\ wrapped = <<>>
    /\ invoked = <<>>

\* the other components stay as constructed
CacheOnly ==
    UNCHANGED <<monVars, batchVars, poolVars, wdVars, rlVars, coVars, memoVars>>

CacheNext ==
    \/ \E k \in CallerKeys : Get(k) /\ Uses(k) /\ CacheOnly
    \/ \E k \in CallerKeys, v \in Values, t \in Ttls :
            Set(k, v, t) /\ Uses(k) /\ CacheOnly
    \/ \E k \in CallerKeys : Delete(k) /\ Uses(k) /\ CacheOnly
    \/ Clear /\ UNCHANGED nkeys /\ CacheOnly
    \/ CleanupExpired /\ UNCHANGED nkeys /\ CacheOnly
    \/ Tick /\ CacheOnly

\* the empty string: _estimate_size gives it 0 bytes
EmptyString == [kind |-> "str", len |-> 0]

\* the cache with callers that also store values of size 0
CacheSizesNext ==
    \/ CacheNext
    \/ \E k \in CallerKeys : Set(k, EmptyString, None) /\ Uses(k) /\ CacheOnly

---------------------------------------------------------------------------
(* PerformanceMonitor *)

\* operation names the callers record
OperationNames == {"analyze", "generate"}

MonitorInit ==
    /\ max_metrics \in 0..MaxCapacity
    /\ metrics = <<>>
    /\ recorded = <<>>
    /\ calls = <<>>

\* a monitor nobody uses
MonitorIdle ==
    /\ max_metrics = 0
    /\ metrics = <<>>
    /\ recorded = <<>>
    /\ calls = <<>>

\* the trim of record_operation: self.metrics[-self.max_metrics:]
Trim(ms) ==
    IF Len(ms) > max_metrics THEN PySliceFrom(ms, -max_metrics) ELSE ms

\* the effect of `await monitor.record_operation(operation_name, ...,
\* **metadata)`: the sample's number stands for its duration, memory and
\* timestamp.  The monitor's lock is free whenever it is asked for (its
\* holder never suspends), so the call runs in one step.
record_operation(operation_name, metadata) ==
    LET metric == [operation_name |-> operation_name, n |-> Len(recorded) + 1,
                   metadata |-> metadata]
    IN  /\ metrics' = Trim(Append(metrics, metric))
        /\ recorded' = Append(recorded, metric)

\* PerformanceMonitor.record_operation called by a caller of its own
RecordOperation(operation_name) ==
    /\ Len(recorded) < MaxRecords
    /\ record_operation(operation_name, [success |-> TRUE, error |-> None])
    /\ UNCHANGED <<max_metrics, calls>>

\* what a wrapped function does when it is called: it returns a value,
\* raises an Exception, or is cancelled (CancelledError, a BaseException
\* that is not an Exception); the value and the error carry the call's number
Behaviours == {"return", "raise", "cancelled"}
FuncOutcome(c) ==
    IF calls[c].does = "return" THEN [kind |-> "result", v |-> c]
    ELSE IF calls[c].does = "raise" THEN [kind |-> "exception", v |-> c]
    ELSE [kind |-> "cancelled", v |-> c]

\* str(e): the message of the error
str(e) == e.v

\* ExceptException of a wrapper without its except clause
ExceptNothing(o) == FALSE

\* `except Exception as e` takes what the function raised
ExceptException(o) == o.kind = "exception"

\* wrapper(*args) is called: the wrapped function, named operation_name,
\* starts
WrapperCall(operation_name, does) ==
    /\ Len(calls) < MaxCalls
    /\ calls' = Append(calls, [operation_name |-> operation_name, does |-> does,
                               pc |-> "running", handed |-> Pending,
                               appended |-> 0])
    /\ UNCHANGED <<max_metrics, metrics, recorded>>

\* the wrapped function of call c ends and the wrapper runs to its end: it
\* records a success and returns the result, or records the failure it has
\* caught and raises it again, or lets pass what it does not catch.
\* `handed` is what the caller of the wrapper gets, `appended` the number of
\* samples the call has recorded.
WrapperEnds(c) ==
    /\ c \in DOMAIN calls
    /\ calls[c].pc = "running"
    /\ Len(recorded) < MaxRecords
    /\ LET o == FuncOutcome(c)
       IN  IF o.kind = "result" THEN
              /\ record_operation(calls[c].operation_name,
                                  [success |-> TRUE, error |-> None])
              /\ calls' = [calls EXCEPT ![c].pc = "done", ![c].handed = o,
                                        ![c].appended = @ + 1]
           ELSE IF ExceptException(o) THEN
              /\ record_operation(calls[c].operation_name,
                                  [success |-> FALSE, error |-> Some(str(o))])
              /\ calls' = [calls EXCEPT ![c].pc = "done", ![c].handed = o,
                                        ![c].appended = @ + 1]
           ELSE
              /\ calls' = [calls EXCEPT ![c].pc = "done", ![c].handed = o]
              /\ UNCHANGED <<metrics, recorded>>
    /\ UNCHANGED max_metrics

\* total_operations of PerformanceMonitor.get_overall_stats()
total_operations == IF metrics = <<>> THEN 0 ELSE Len(metrics)

\* the other components stay as constructed
MonitorOnly ==
    UNCHANGED <<cacheVars, batchVars, poolVars, wdVars, rlVars, coVars, memoVars>>

MonitorNext ==
    \/ \E name \in OperationNames : RecordOperation(name) /\ MonitorOnly
    \/ \E name \in OperationNames, does \in Behaviours :
            WrapperCall(name, does) /\ MonitorOnly
    \/ \E c \in DOMAIN calls : WrapperEnds(c) /\ MonitorOnly

---------------------------------------------------------------------------
(* BatchProcessor *)

\* requests are numbered in the order of their add_request calls; the number
\* is also the request_data handed to the callback
Requests == 1..MaxRequests

\* await request['callback'](request['data']): the callback returns a value
\* computed from its data or raises an Exception of its own (a callback that
\* is cancelled raises CancelledError, which is not an Exception: see
\* ProcessSingleRequest)
Call(cb, data) ==
    IF cb = "return" THEN [kind |-> "result", v |-> data]
    ELSE [kind |-> "exception", v |-> data]

BatchInit ==
    /\ batch_size \in 1..MaxBatchSize
    /\ pending_requests = <<>>
    /\ processing = FALSE
    /\ scheduled = 0
    /\ cycles = <<>>
    /\ ncycles = 0
    /\ callback = <<>>
    /\ future = <<>>
    /\ running = {}
    /\ batches = <<>>
    /\ crashed = {}

\* a batch processor nobody uses
BatchIdle ==
    /\ batch_size = 1
    /\ pending_requests = <<>>
    /\ processing = FALSE
    /\ scheduled = 0
    /\ cycles = <<>>
    /\ ncycles = 0
    /\ callback = <<>>
    /\ future = <<>>
    /\ running = {}
    /\ batches = <<>>
    /\ crashed = {}

\* the other components stay as constructed
BatchOnly ==
    UNCHANGED <<cacheVars, monVars, poolVars, wdVars, rlVars, coVars, memoVars>>

\* BatchProcessor.add_request(request_data, callback) up to `await future`.
\* batch_lock is free whenever a coroutine asks for it: its holders never
\* suspend, so taking it never yields and the body runs in one step.
AddRequest(cb) ==
    /\ Len(callback) < MaxRequests
    /\ LET r == Len(callback) + 1
           queue == Append(pending_requests, r)
       IN  /\ callback' = Append(callback, cb)
           /\ future' = Append(future, Pending)
           /\ pending_requests' = queue
           /\ scheduled' = IF Len(queue) >= batch_size \/ ~processing
                           THEN scheduled + 1 ELSE scheduled
    /\ UNCHANGED <<batch_size, processing, cycles, ncycles, running, batches,
                   crashed>>

\* Snapshot without `self.pending_requests.clear()`
SnapshotKeepsQueue(c, cs) ==
    IF pending_requests = <<>> THEN
        /\ cycles' = [x \in (DOMAIN cs) \ {c} |-> cs[x]]
        /\ processing' = FALSE
        /\ UNCHANGED <<pending_requests, running, batches>>
    ELSE
        /\ cycles' = [cs EXCEPT ![c] = [pc |-> "dispatching",
                                        batch |-> pending_requests]]
        /\ running' = running \cup {pending_requests[i] : i \in DOMAIN pending_requests}
        /\ batches' = Append(batches, pending_requests)
        /\ processing' = TRUE
        /\ UNCHANGED pending_requests

\* _process_batch from the lock to the creation of the tasks (lines 495-508),
\* by cycle c: the cycle ends if the queue is empty (the finally resets
\* _processing), else it snapshots and clears the queue and creates one task
\* per request
Snapshot(c, cs) ==
    IF pending_requests = <<>> THEN
        /\ cycles' = [x \in (DOMAIN cs) \ {c} |-> cs[x]]
        /\ processing' = FALSE
        /\ UNCHANGED <<pending_requests, running, batches>>
    ELSE
        /\ cycles' = [cs EXCEPT ![c] = [pc |-> "dispatching",
                                        batch |-> pending_requests]]
        /\ pending_requests' = <<>>
        /\ running' = running \cup {pending_requests[i] : i \in DOMAIN pending_requests}
        /\ batches' = Append(batches, pending_requests)
        /\ processing' = TRUE

\* GuardReturns of a _process_batch without the guard
GuardNeverReturns == FALSE

\* `if self._processing: return`
GuardReturns == processing

\* a created _process_batch task starts: it returns at once if a cycle is
\* running, else it sets _processing and enters the wait loop, which it
\* leaves without sleeping when the queue already holds batch_size requests
\* (max_wait_time > 0, so the first test of the clock cannot end the loop)
StartCycle ==
    /\ scheduled > 0
    /\ scheduled' = scheduled - 1
    /\ IF GuardReturns THEN
          UNCHANGED <<pending_requests, processing, cycles, ncycles, running, batches>>
       ELSE
          /\ ncycles' = ncycles + 1
          /\ LET c == ncycles + 1
                 cs == [x \in (DOMAIN cycles) \cup {c} |->
                          IF x = c THEN [pc |-> "collecting", batch |-> <<>>]
                          ELSE cycles[x]]
             IN  IF Len(pending_requests) >= batch_size
                 THEN Snapshot(c, cs)
                 ELSE /\ cycles' = cs
                      /\ processing' = TRUE
                      /\ UNCHANGED <<pending_requests, running, batches>>
    /\ UNCHANGED <<batch_size, callback, future, crashed>>

\* cycle c wakes from asyncio.sleep(0.1) and leaves the wait loop: the queue
\* has filled, or max_wait_time has elapsed
LeaveWaitLoop(c, timed_out) ==
    /\ c \in DOMAIN cycles
    /\ cycles[c].pc = "collecting"
    /\ Len(pending_requests) >= batch_size \/ timed_out
    /\ Snapshot(c, cycles)
    /\ UNCHANGED <<batch_size, scheduled, ncycles, callback, future, crashed>>

\* Resolve as one try/except around the whole batch would do it: a raising
\* callback rejects every future of the batch that is not done yet
ResolveWholeBatch(f, request, batch) ==
    IF callback[request] = "return"
    THEN [f EXCEPT ![request] = Call(callback[request], request)]
    ELSE [r \in DOMAIN f |->
            IF r = request \/ (IsPending(f[r]) /\ \E i \in DOMAIN batch : batch[i] = r)
            THEN Call(callback[request], request) ELSE f[r]]

\* the futures after request's task has run its callback to the end:
\* set_result with what the callback returned, set_exception with what it raised
Resolve(f, request, batch) ==
    [f EXCEPT ![request] = Call(callback[request], request)]

\* _process_single_request(request): the callback of the request terminates.
\* `except Exception` lets a CancelledError pass: the task ends with it and
\* the future is left as it was.
ProcessSingleRequest(request) ==
    /\ request \in running
    /\ IF callback[request] = "cancelled" THEN
          /\ crashed' = crashed \cup {request}
          /\ UNCHANGED future
       ELSE
          /\ \E n \in DOMAIN batches :
                /\ \E i \in DOMAIN batches[n] : batches[n][i] = request
                /\ future' = Resolve(future, request, batches[n])
          /\ UNCHANGED crashed
    /\ running' = running \ {request}
    /\ UNCHANGED <<batch_size, pending_requests, processing, scheduled, cycles,
                   ncycles, callback, batches>>

\* asyncio.gather(*tasks) of cycle c completes: every task of the batch has
\* finished, none with an error; the finally resets _processing
EndCycle(c) ==
    /\ c \in DOMAIN cycles
    /\ cycles[c].pc = "dispatching"
    /\ \A i \in DOMAIN cycles[c].batch :
          cycles[c].batch[i] \notin running \cup crashed
    /\ processing' = FALSE
    /\ cycles' = [x \in (DOMAIN cycles) \ {c} |-> cycles[x]]
    /\ UNCHANGED <<batch_size, pending_requests, scheduled, ncycles, callback,
                   future, running, batches, crashed>>

\* asyncio.gather(*tasks) of cycle c raises: a task of the batch has ended
\* with an error, which gather hands to _process_batch without waiting for
\* the other tasks; the finally resets _processing
CycleFails(c) ==
    /\ c \in DOMAIN cycles
    /\ cycles[c].pc = "dispatching"
    /\ \E i \in DOMAIN cycles[c].batch : cycles[c].batch[i] \in crashed
    /\ processing' = FALSE
    /\ cycles' = [x \in (DOMAIN cycles) \ {c} |-> cycles[x]]
    /\ UNCHANGED <<batch_size, pending_requests, scheduled, ncycles, callback,
                   future, running, batches, crashed>>

BatchNext ==
    \/ \E cb \in {"return", "raise"} : AddRequest(cb) /\ BatchOnly
    \/ StartCycle /\ BatchOnly
    \/ \E c \in DOMAIN cycles : LeaveWaitLoop(c, FALSE) /\ BatchOnly
    \/ \E c \in DOMAIN cycles : LeaveWaitLoop(c, TRUE) /\ BatchOnly
    \/ \E r \in running : ProcessSingleRequest(r) /\ BatchOnly
    \/ \E c \in DOMAIN cycles : EndCycle(c) /\ BatchOnly

\* the batch processor with callbacks that may also be cancelled
BatchErrNext ==
    \/ BatchNext
    \/ AddRequest("cancelled") /\ BatchOnly
    \/ \E c \in DOMAIN cycles : CycleFails(c) /\ BatchOnly

---------------------------------------------------------------------------
(* AsyncPoolExecutor *)

\* the tasks of a submit_all call, in input order
TaskIds == 1..NumTasks

\* what a task does when it runs: it returns a value, or raises an error of
\* its own
TaskKinds == { [kind |-> "result", v |-> "x"], [kind |-> "result", v |-> "y"] }
             \cup { [kind |-> "exception", v |-> "error"] }

\* the outcome of task i: the value it returns, or the error it raises,
\* which carries the task's number
Run(i) ==
    IF tasks[i].kind = "result" THEN tasks[i]
    ELSE [kind |-> "exception", v |-> i]

\* no call of shutdown has been made
NotCalled == [pc |-> "none", wait |-> FALSE, seen |-> {}]

\* AsyncPoolExecutor.__init__, followed by a call submit_all(tasks): gather
\* wraps every submit coroutine in a task, none of which has run yet
PoolInit ==
    /\ max_workers \in 1..MaxWorkers
    /\ permits = max_workers
    /\ tasks \in [TaskIds -> TaskKinds]
    /\ pc = [i \in TaskIds |-> "waiting"]
    /\ active_tasks = {}
    /\ outcome = [i \in TaskIds |-> Pending]
    /\ callbacks = <<>>
    /\ nfinished = 0
    /\ outer = Pending
    /\ returned = Pending
    /\ finish_order = <<>>
    /\ shut = NotCalled

\* an executor nobody uses
PoolIdle ==
    /\ max_workers = 1
    /\ permits = 1
    /\ tasks = <<>>
    /\ pc = <<>>
    /\ active_tasks = {}
    /\ outcome = <<>>
    /\ callbacks = <<>>
    /\ nfinished = 0
    /\ outer = Pending
    /\ returned = Pending
    /\ finish_order = <<>>
    /\ shut = NotCalled

\* the other components stay as constructed
PoolOnly ==
    UNCHANGED <<cacheVars, monVars, batchVars, wdVars, rlVars, coVars, memoVars>>

\* CanAcquire of a limiter that never looks at its permits
CanAcquireAlways == TRUE

\* asyncio.Semaphore.acquire can take a permit
CanAcquire == permits > 0

\* submit, line 548-550: the call takes a permit, creates the task and adds
\* it to active_tasks
Acquire(i) ==
    /\ pc[i] = "waiting"
    /\ CanAcquire
    /\ permits' = permits - 1
    /\ active_tasks' = active_tasks \cup {i}
    /\ pc' = [pc EXCEPT ![i] = "running"]
    /\ UNCHANGED <<shut, max_workers, tasks, outcome, callbacks, nfinished, outer,
                   returned, finish_order>>

\* the task created by submit call i runs to its end; the submit call, which
\* awaits it, has not resumed yet
TaskDone(i) ==
    /\ pc[i] = "running"
    /\ pc' = [pc EXCEPT ![i] = "completed"]
    /\ UNCHANGED <<shut, max_workers, permits, tasks, active_tasks, outcome, callbacks,
                   nfinished, outer, returned, finish_order>>

\* Released of a submit that leaves the semaphore only on the success path
ReleasedOnSuccess(i) == IF tasks[i].kind = "result" THEN 1 ELSE 0

\* the permits the semaphore's __aexit__ gives back when submit call i ends
Released(i) == 1

\* submit, line 553-555: the call resumes with its task's outcome, discards
\* the task from active_tasks, leaves the semaphore and ends with that outcome
Finish(i) ==
    /\ pc[i] = "completed"
    /\ active_tasks' = active_tasks \ {i}
    /\ permits' = permits + Released(i)
    /\ outcome' = [outcome EXCEPT ![i] = Run(i)]
    /\ pc' = [pc EXCEPT ![i] = "done"]
    /\ callbacks' = Append(callbacks, i)
    /\ finish_order' = Append(finish_order, i)
    /\ UNCHANGED <<shut, max_workers, tasks, nfinished, outer, returned>>

\* GatherResults of a gather that lists the results as the children finish
GatherResultsAsFinished ==
    [n \in DOMAIN finish_order |-> outcome[finish_order[n]].v]

\* gather's result list once every child has finished: the children's
\* results in the order of the arguments (a child that has not finished has
\* no result to list)
GatherResults ==
    [i \in TaskIds |-> IF IsPending(outcome[i]) THEN "no result" ELSE outcome[i].v]

\* AllFinished of a gather that is content with its first finished child
AnyFinished(n) == n >= 1

\* gather is ready to hand a result list to its caller
AllFinished(n) == n = NumTasks

\* asyncio.gather(*coroutines), line 571, without return_exceptions: its
\* callback for the next finished child counts it; while the outer future is
\* not done, a child's exception becomes the outer future's exception, and
\* the last child to finish makes the result list
GatherCallback ==
    /\ callbacks # <<>>
    /\ LET i == Head(callbacks)
       IN  /\ callbacks' = Tail(callbacks)
           /\ nfinished' = nfinished + 1
           /\ outer' = IF ~IsPending(outer) THEN outer
                       ELSE IF outcome[i].kind = "exception" THEN outcome[i]
                       ELSE IF AllFinished(nfinished + 1)
                            THEN [kind |-> "result", v |-> GatherResults]
                       ELSE outer
    /\ UNCHANGED <<shut, max_workers, permits, tasks, pc, active_tasks, outcome,
                   returned, finish_order>>

\* submit_all's `return await asyncio.gather(...)` resumes: submit_all
\* returns the list or raises the exception of the outer future
SubmitAllReturns ==
    /\ ~IsPending(outer)
    /\ IsPending(returned)
    /\ returned' = outer
    /\ UNCHANGED <<shut, max_workers, permits, tasks, pc, active_tasks, outcome,
                   callbacks, nfinished, outer, finish_order>>

\* Drained of a shutdown that does not look at active_tasks
DrainedAlways == TRUE

\* shutdown's loop condition is false: `while self.active_tasks` ends
Drained == active_tasks = {}

\* AsyncPoolExecutor.shutdown(wait), called by a coroutine of its own while
\* submit_all is under way: without wait it returns in the same step; with
\* wait it returns if active_tasks is empty and else sleeps.  `seen` keeps
\* the tasks that were in active_tasks when the call returned.
Shutdown(wait) ==
    /\ shut.pc = "none"
    /\ shut' = IF wait /\ ~Drained
               THEN [pc |-> "sleeping", wait |-> wait, seen |-> {}]
               ELSE [pc |-> "returned", wait |-> wait, seen |-> active_tasks]
    /\ UNCHANGED <<max_workers, permits, tasks, pc, active_tasks, outcome,
                   callbacks, nfinished, outer, returned, finish_order>>

\* shutdown wakes from asyncio.sleep(0.1) and finds its loop condition
\* false (a wake-up that finds it true changes nothing)
ShutdownWakes ==
    /\ shut.pc = "sleeping"
    /\ Drained
    /\ shut' = [shut EXCEPT !.pc = "returned", !.seen = active_tasks]
    /\ UNCHANGED <<max_workers, permits, tasks, pc, active_tasks, outcome,
                   callbacks, nfinished, outer, returned, finish_order>>

PoolNext ==
    \/ \E i \in TaskIds : Acquire(i) /\ PoolOnly
    \/ \E i \in TaskIds : TaskDone(i) /\ PoolOnly
    \/ \E i \in TaskIds : Finish(i) /\ PoolOnly
    \/ GatherCallback /\ PoolOnly
    \/ SubmitAllReturns /\ PoolOnly

\* a submit_all call and, at any moment of it, a shutdown call
ShutdownNext ==
    \/ PoolNext
    \/ \E wait \in BOOLEAN : Shutdown(wait) /\ PoolOnly
    \/ ShutdownWakes /\ PoolOnly

---------------------------------------------------------------------------
(* ResourceManager *)

\* the arguments of asyncio.sleep in _monitor_resources, in tenths of a second
Pause == 5
Interval == 50
Backoff == 100

\* how a check goes: no step fails ("ok": memory and CPU below their limits,
\* or memory above and gc.collect run, or psutil missing, which the inner
\* handler passes over), the CPU is above its limit, or one of the steps
\* raises an Exception
ErrorOutcomes == {"memory_error", "collect_error", "cpu_error"}
CheckOutcomes == {"ok", "high_cpu"} \cup ErrorOutcomes

\* ResourceManager.__init__
WatchdogInit ==
    /\ monitoring = FALSE
    /\ loops = <<>>

\* a resource manager nobody uses
WatchdogIdle ==
    /\ monitoring = FALSE
    /\ loops = <<>>

\* the other components stay as constructed
WatchdogOnly ==
    UNCHANGED <<cacheVars, monVars, batchVars, poolVars, rlVars, coVars, memoVars>>

\* ResourceManager.start_monitoring(): the coroutine has no await, it sets
\* the flag and creates a task, which has not run yet
StartMonitoring ==
    /\ Len(loops) < MaxStarts
    /\ monitoring' = TRUE
    /\ loops' = Append(loops, [pc |-> "created", sleep |-> 0, checks |-> 0,
                               errors |-> 0, last |-> "none"])

\* ResourceManager.stop_monitoring() (a call that finds the flag False
\* changes nothing)
StopMonitoring ==
    /\ monitoring
    /\ monitoring' = FALSE
    /\ UNCHANGED loops

\* LoopCondition of a loop that never looks at the flag
LoopForever == TRUE

\* `while self.monitoring`
LoopCondition == monitoring

\* WatchdogCatches of a loop without the outer handler
WatchdogCatchesNothing(went) == FALSE

\* `except Exception as e` of the loop takes what a step of the check raised
WatchdogCatches(went) == went \in ErrorOutcomes

\* loop l is at the head of `while self.monitoring`: its task has not run
\* yet, or it sleeps in the sleep that ends an iteration
AtHead(l) ==
    \/ loops[l].pc = "created"
    \/ loops[l].pc = "sleeping" /\ loops[l].sleep \in {Interval, Backoff}

\* one iteration of the loop body, from the try to the next await; `checks`
\* counts the iterations of the task, `errors` those that ended in the outer
\* handler, `last` tells how the last one went
Check(l, went) ==
    /\ loops[l].checks < MaxChecks
    /\ loops' = [loops EXCEPT ![l] =
          [pc |-> IF went \in ErrorOutcomes /\ ~WatchdogCatches(went)
                  THEN "crashed" ELSE "sleeping",
           sleep |-> IF went = "ok" THEN Interval
                     ELSE IF went = "high_cpu" THEN Pause
                     ELSE IF WatchdogCatches(went) THEN Backoff
                     ELSE 0,
           checks |-> loops[l].checks + 1,
           errors |-> loops[l].errors + IF WatchdogCatches(went) THEN 1 ELSE 0,
           last |-> went]]

\* task l of _monitor_resources runs from its start, or from the end of a
\* sleep, to its next await or to its end
LoopStep(l, went) ==
    /\ l \in DOMAIN loops
    /\ IF AtHead(l) THEN
          IF LoopCondition THEN Check(l, went)
          ELSE /\ went = "ok"
               /\ loops' = [loops EXCEPT ![l].pc = "terminated", ![l].sleep = 0]
       ELSE
          /\ loops[l].pc = "sleeping"
          /\ loops[l].sleep = Pause
          /\ went = "ok"
          /\ loops' = [loops EXCEPT ![l].sleep = Interval]
    /\ UNCHANGED monitoring

WatchdogNext ==
    \/ StartMonitoring /\ WatchdogOnly
    \/ StopMonitoring /\ WatchdogOnly
    \/ \E l \in DOMAIN loops, went \in CheckOutcomes :
            LoopStep(l, went) /\ WatchdogOnly

\* the steps of task l
Runs(l) == \E went \in CheckOutcomes : LoopStep(l, went) /\ WatchdogOnly

---------------------------------------------------------------------------
(* RateLimiter (core/security.py) *)

Identifiers == 1..NumIdentifiers

\* RateLimiter.__init__
LimiterInit ==
    /\ max_requests \in 0..MaxLimit
    /\ time_window \in 0..MaxWindow
    /\ requests = <<>>
    /\ current_time = 0
    /\ served = <<>>

\* a rate limiter nobody uses
LimiterIdle ==
    /\ max_requests = 0
    /\ time_window = 0
    /\ requests = <<>>
    /\ current_time = 0
    /\ served = <<>>

\* the other components stay as constructed
LimiterOnly ==
    UNCHANGED <<cacheVars, monVars, batchVars, poolVars, wdVars, coVars, memoVars>>

\* the list comprehension of is_allowed and get_remaining_requests: the
\* timestamps of the list that are younger than time_window
Recent(times) ==
    SelectSeq(times, LAMBDA req_time : current_time - req_time < time_window)

\* UnderLimit admitting one request more than max_requests
UnderLimitOffByOne(times) == Len(times) <= max_requests

\* `len(self.requests[identifier]) < self.max_requests`
UnderLimit(times) == Len(times) < max_requests

\* RateLimiter.is_allowed(identifier)
IsAllowed(identifier) ==
    /\ Len(served) < MaxServed
    /\ LET known == IF identifier \in DOMAIN requests
                    THEN requests[identifier] ELSE <<>>
           kept == Recent(known)
           ret == UnderLimit(kept)
       IN  /\ requests' = DictPut(requests, identifier,
                                  IF ret THEN Append(kept, current_time) ELSE kept)
           /\ served' = Append(served, [identifier |-> identifier,
                                        t |-> current_time, ret |-> ret])
    /\ UNCHANGED <<max_requests, time_window, current_time>>

\* the value RateLimiter.get_remaining_requests(identifier) returns
Remaining(identifier) ==
    IF identifier \notin DOMAIN requests THEN max_requests
    ELSE LET left == max_requests - Len(Recent(requests[identifier]))
         IN  IF left > 0 THEN left ELSE 0

\* RateLimiter.get_remaining_requests(identifier): the call prunes the list
\* of an identifier it knows
GetRemainingRequests(identifier) ==
    /\ requests' = IF identifier \notin DOMAIN requests THEN requests
                   ELSE DictPut(requests, identifier,
                                Recent(requests[identifier]))
    /\ UNCHANGED <<max_requests, time_window, current_time, served>>

\* time.time() moves on between two calls
LimiterTick ==
    /\ current_time < MaxClock
    /\ current_time' = current_time + 1
    /\ UNCHANGED <<max_requests, time_window, requests, served>>

\* identifiers are opaque: they are numbered in the order of their first use
KnownIdentifiers ==
    {i \in Identifiers : i <= Cardinality(DOMAIN requests) + 1}

LimiterNext ==
    \/ \E i \in KnownIdentifiers : IsAllowed(i) /\ LimiterOnly
    \/ \E i \in KnownIdentifiers : GetRemainingRequests(i) /\ LimiterOnly
    \/ LimiterTick /\ LimiterOnly

---------------------------------------------------------------------------
(* Coroutines calling one LRUCache concurrently.  Every operation is
   `async with self._lock:` around its body; a body is cut at its await
   expressions, the places where the event loop may run another coroutine. *)

Callers == 1..NumCallers

\* what a call returns
PyNone == [kind |-> "None"]
PyObject(v) == [kind |-> "object", v |-> v]
PyBool(b) == [kind |-> "bool", b |-> b]
PyInt(n) == [kind |-> "int", n |-> n]

\* a coroutine that has not entered the body of its operation
Waiting ==
    [pc |-> "waiting", op |-> "none", key |-> 0,
     value |-> [kind |-> "num", len |-> 0], ttl |-> None,
     ret |-> PyNone, todo |-> {}, n |-> 0]

\* the fields of the cache the bodies work on
Cur ==
    [c |-> cache, o |-> access_order, m |-> current_memory,
     h |-> hits, mi |-> misses, ev |-> evictions]

CallersInit ==
    /\ lock = 0
    /\ co = [c \in Callers |-> Waiting]
    /\ order = <<>>
    /\ seq = Cur

Commit(st) ==
    /\ cache' = st.c
    /\ access_order' = st.o
    /\ current_memory' = st.m
    /\ hits' = st.h
    /\ misses' = st.mi
    /\ evictions' = st.ev

\* the return statement of a body
Returned(me, value) == [me EXCEPT !.pc = "returned", !.ret = value]

\* get, to its return or to `await self._remove_entry(key)`
GetBegin(st, me) ==
    IF me.key \notin DOMAIN st.c THEN
        [st |-> [st EXCEPT !.mi = @ + 1], me |-> Returned(me, PyNone)]
    ELSE IF Expired(st.c[me.key], now) THEN
        [st |-> st, me |-> [me EXCEPT !.pc = "get_remove"]]
    ELSE
        [st |-> [st EXCEPT !.c[me.key] = Accessed(@),
                           !.o = Touch(@, me.key),
                           !.h = @ + 1],
         me |-> Returned(me, PyObject(st.c[me.key].data))]

\* get, from the await of its expired branch to the return
GetRemoved(st, me) ==
    [st |-> [_remove_entry(st, me.key) EXCEPT !.mi = @ + 1],
     me |-> Returned(me, PyNone)]

\* set, from the test of its while loop to the next await or to the return
SetLoop(st, me) ==
    LET size_bytes == _estimate_size(me.value)
        entry == [data |-> me.value, last_accessed |-> now,
                  access_count |-> 0, size_bytes |-> size_bytes,
                  expires_at |-> ExpiresAt(me.ttl)]
    IN  IF NeedSpace(st, size_bytes) /\ st.o # <<>> THEN
            LET oldest_key == OldestKey(st.o)
            IN  [st |-> [st EXCEPT !.o = ListRemove(@, oldest_key)],
                 me |-> [me EXCEPT !.pc = "set_evict", !.todo = {oldest_key}]]
        ELSE
            [st |-> [st EXCEPT !.c = DictPut(@, me.key, entry),
                               !.o = Append(@, me.key),
                               !.m = @ + size_bytes],
             me |-> Returned(me, PyNone)]

\* set, to its first await or to the return
SetBegin(st, me) ==
    IF me.key \in DOMAIN st.c
    THEN [st |-> st, me |-> [me EXCEPT !.pc = "set_remove"]]
    ELSE SetLoop(st, me)

\* set, from the removal of the key's old entry on
SetRemoved(st, me) == SetLoop(_remove_entry(st, me.key), me)

\* set, from the removal of the popped key on
SetEvicted(st, me, oldest_key) ==
    SetLoop([_remove_entry(st, oldest_key) EXCEPT !.ev = @ + 1],
            [me EXCEPT !.todo = {}])

\* delete, to its await or to the return
DeleteBegin(st, me) ==
    IF me.key \in DOMAIN st.c
    THEN [st |-> st, me |-> [me EXCEPT !.pc = "delete_remove"]]
    ELSE [st |-> st, me |-> Returned(me, PyBool(FALSE))]

\* delete, from its await to the return
DeleteRemoved(st, me) ==
    [st |-> _remove_entry(st, me.key), me |-> Returned(me, PyBool(TRUE))]

\* clear has no await
ClearBegin(st, me) ==
    [st |-> [st EXCEPT !.c = <<>>, !.o = <<>>, !.m = 0],
     me |-> Returned(me, PyNone)]

\* cleanup_expired, to the first await of its for loop or to the return
CleanupBegin(st, me) ==
    LET expired_keys == {k \in DOMAIN st.c : Expired(st.c[k], now)}
    IN  IF expired_keys = {} THEN [st |-> st, me |-> Returned(me, PyInt(0))]
        ELSE [st |-> st,
              me |-> [me EXCEPT !.pc = "cleanup_remove", !.todo = expired_keys,
                                !.n = Cardinality(expired_keys)]]

\* cleanup_expired, one pass of its for loop
CleanupRemoved(st, me, key) ==
    [st |-> _remove_entry(st, key),
     me |-> IF me.todo = {key} THEN Returned([me EXCEPT !.todo = {}], PyInt(me.n))
            ELSE [me EXCEPT !.todo = @ \ {key}]]

\* the body of me.op from `async with` to its first await
Start(st, me) ==
    CASE me.op = "get" -> GetBegin(st, me)
      [] me.op = "set" -> SetBegin(st, me)
      [] me.op = "delete" -> DeleteBegin(st, me)
      [] me.op = "clear" -> ClearBegin(st, me)
      [] me.op = "cleanup_expired" -> CleanupBegin(st, me)

\* the body from the await it stopped at to the next; key is the key the
\* awaited _remove_entry is called with
Continue(st, me, key) ==
    CASE me.pc = "get_remove" -> GetRemoved(st, me)
      [] me.pc = "set_remove" -> SetRemoved(st, me)
      [] me.pc = "set_evict" -> SetEvicted(st, me, key)
      [] me.pc = "delete_remove" -> DeleteRemoved(st, me)
      [] me.pc = "cleanup_remove" -> CleanupRemoved(st, me, key)

\* the keys the awaited _remove_entry may be called with
Awaited(me) == IF me.todo = {} THEN {me.key} ELSE me.todo

InBody(me) == me.pc \notin {"waiting", "returned"}

\* a body run from r to its return with no other coroutine in between
RECURSIVE RunAlone(_)
RunAlone(r) ==
    IF ~InBody(r.me) THEN r
    ELSE RunAlone(Continue(r.st, r.me, CHOOSE k \in Awaited(r.me) : TRUE))

\* the call of coroutine me made on the cache st by a single caller
Sequential(st, me) ==
    RunAlone(Start(st, [me EXCEPT !.pc = "body", !.todo = {}, !.n = 0]))

\* a lock that lets every coroutine in
LockIgnored == TRUE

\* asyncio.Lock: acquire returns when nobody holds the lock
LockFree == lock = 0

\* coroutine c has run a part of its body and reached r; `held` is the
\* holder of the lock during that part.  `async with` releases the lock on
\* the way out of the body.  When the call returns, the same call is made
\* on the cache seq.
Land(c, r, held) ==
    /\ Commit(r.st)
    /\ IF r.me.pc = "returned" THEN
            LET alone == Sequential(seq, r.me)
            IN  /\ co' = [co EXCEPT ![c] = [Waiting EXCEPT !.pc = "returned"]]
                /\ lock' = IF held = c THEN 0 ELSE held
                /\ order' = Append(order, c)
                /\ seq' = alone.st
                /\ lastOp' = [op |-> r.me.op, key |-> r.me.key,
                              ret |-> r.me.ret, alone |-> alone.me.ret]
       ELSE /\ co' = [co EXCEPT ![c] = r.me]
            /\ lock' = held
            /\ UNCHANGED <<order, seq, lastOp>>
    /\ UNCHANGED <<cfg, now, nops, ngets>>

\* coroutine c acquires the lock and runs operation op to its first await;
\* the coroutines are alike and take their numbers in the order of entry
Enter(c, op, key, value, ttl) ==
    /\ co[c].pc = "waiting"
    /\ \A d \in Callers : d < c => co[d].pc # "waiting"
    /\ LockFree
    /\ Land(c, Start(Cur, [Waiting EXCEPT !.pc = "body", !.op = op,
                                          !.key = key, !.value = value,
                                          !.ttl = ttl]), c)

\* coroutine c goes on from the await it stopped at
Resume(c) ==
    /\ InBody(co[c])
    /\ \E key \in Awaited(co[c]) : Land(c, Continue(Cur, co[c], key), lock)
    /\ UNCHANGED nkeys

\* time passes; the parts of a body after its first await do not read the
\* clock (set reads it in its last part only), so a tick inside a body is a
\* tick before or after it
CallersTick ==
    /\ \A c \in Callers : ~InBody(co[c])
    /\ now < MaxTime
    /\ now' = now + 1
    /\ UNCHANGED <<cfg, cache, access_order, current_memory, hits, misses,
                   evictions, lastOp, nops, nkeys, ngets, coVars>>

CallersOnly ==
    UNCHANGED <<monVars, batchVars, poolVars, wdVars, rlVars, memoVars>>

CallersNext ==
    \/ \E c \in Callers, k \in CallerKeys :
            Enter(c, "get", k, Waiting.value, None) /\ Uses(k) /\ CallersOnly
    \/ \E c \in Callers, k \in CallerKeys, v \in Values, t \in Ttls :
            Enter(c, "set", k, v, t) /\ Uses(k) /\ CallersOnly
    \/ \E c \in Callers, k \in CallerKeys :
            Enter(c, "delete", k, Waiting.value, None) /\ Uses(k) /\ CallersOnly
    \/ \E c \in Callers :
            Enter(c, "clear", 0, Waiting.value, None)
            /\ UNCHANGED nkeys /\ CallersOnly
    \/ \E c \in Callers :
            Enter(c, "cleanup_expired", 0, Waiting.value, None)
            /\ UNCHANGED nkeys /\ CallersOnly
    \/ \E c \in Callers : Resume(c) /\ CallersOnly
    \/ CallersTick /\ CallersOnly

---------------------------------------------------------------------------
(* timed_cache: the wrapper of a function, with its own LRUCache.  The
   cache's lock is free whenever the wrapper asks for it (C25: a holder
   gives it back before any other coroutine runs), so cache.get and
   cache.set are the steps Get and Set. *)

\* decorator(func): `cache = LRUCache(max_size=max_size, default_ttl=ttl)`,
\* with the default max_memory_mb = 100
MemoInit ==
    /\ cfg \in [max_size : 1..MaxEntries, max_memory_mb : {100},
               default_ttl : {0, 1}]
    /\ cache = <<>>
    /\ access_order = <<>>
    /\ current_memory = 0
    /\ hits = 0
    /\ misses = 0
    /\ evictions = 0
    /\ now = 0
    /\ lastOp = [op |-> "init"]
    /\ nops = 0
    /\ nkeys = 0
    /\ ngets = 0
    /\ wrapped = <<>>
    /\ invoked = <<>>

\* what the wrapped function returns for args: a number, never None; two
\* invocations return two objects
FuncResult(args) ==
    [kind |-> "num", len |-> 0, of |-> args, run |-> Len(invoked) + 1]

\* a call whose function runs without suspending lets no other coroutine
\* run until the wrapper has returned
NoneRunning(except) ==
    \A w \in DOMAIN wrapped : wrapped[w].pc = "running" => w \in except

\* wrapper(*args) from its start to the return of a hit or to the call of
\* func (lines 360-377); the key is the digest of the arguments, taken to
\* be free of collisions.  `suspends` tells whether func is a coroutine
\* function that suspends before it returns.
MemoCall(args, suspends) ==
    /\ Len(wrapped) < MaxWrapped
    /\ NoneRunning({})
    /\ Get(args)
    /\ IF lastOp'.ret # None THEN
          /\ wrapped' = Append(wrapped, [args |-> args, pc |-> "returned",
                                         result |-> lastOp'.ret[1]])
          /\ UNCHANGED invoked
       ELSE
          /\ wrapped' = Append(wrapped,
                [args |-> args,
                 pc |-> IF suspends THEN "suspended" ELSE "running",
                 result |-> FuncResult(args)])
          /\ invoked' = Append(invoked, args)

\* func has returned to call w: `await cache.set(key, result); return result`
MemoReturn(w) ==
    /\ w \in DOMAIN wrapped
    /\ wrapped[w].pc \in {"running", "suspended"}
    /\ NoneRunning({w})
    /\ Set(wrapped[w].args, wrapped[w].result, None)
    /\ wrapped' = [wrapped EXCEPT ![w].pc = "returned"]
    /\ UNCHANGED <<invoked, nkeys>>

\* time passes
MemoTick ==
    /\ NoneRunning({})
    /\ Tick
    /\ UNCHANGED memoVars

MemoOnly ==
    UNCHANGED <<monVars, batchVars, poolVars, wdVars, rlVars, coVars>>

MemoNext ==
    \/ \E a \in CallerKeys, suspends \in BOOLEAN :
            MemoCall(a, suspends) /\ Uses(a) /\ MemoOnly
    \/ \E w \in DOMAIN wrapped : MemoReturn(w) /\ MemoOnly
    \/ MemoTick /\ MemoOnly

---------------------------------------------------------------------------
(* Specifications: one per component, the other components unused *)

InitCache ==
    CacheInit /\ MonitorIdle /\ BatchIdle /\ PoolIdle /\ WatchdogIdle
    /\ LimiterIdle /\ CallersIdle /\ MemoIdle
SpecCache == InitCache /\ [][CacheNext]_vars

InitMonitor ==
    MonitorInit /\ CacheIdle /\ BatchIdle /\ PoolIdle /\ WatchdogIdle
    /\ LimiterIdle /\ CallersIdle /\ MemoIdle
SpecMonitor == InitMonitor /\ [][MonitorNext]_vars

InitBatch ==
    BatchInit /\ CacheIdle /\ MonitorIdle /\ PoolIdle /\ WatchdogIdle
    /\ LimiterIdle /\ CallersIdle /\ MemoIdle
SpecBatch == InitBatch /\ [][BatchNext]_vars
SpecBatchErr == InitBatch /\ [][BatchErrNext]_vars

InitPool ==
    PoolInit /\ CacheIdle /\ MonitorIdle /\ BatchIdle /\ WatchdogIdle
    /\ LimiterIdle /\ CallersIdle /\ MemoIdle
SpecPool == InitPool /\ [][PoolNext]_vars

\* a submit_all call of tasks that return the same value or fail, and a
\* shutdown call.  The event loop runs every callback that is ready and
\* every task of the model terminates, hence the fairness condition.
InitShutdown == InitPool /\ \A i \in TaskIds : tasks[i].v # "y"
SpecShutdown == InitShutdown /\ [][ShutdownNext]_vars /\ WF_vars(ShutdownNext)

\* the event loop runs every task whose sleep has ended
InitWatchdog ==
    WatchdogInit /\ CacheIdle /\ MonitorIdle /\ BatchIdle /\ PoolIdle
    /\ LimiterIdle /\ CallersIdle /\ MemoIdle
SpecWatchdog ==
    /\ InitWatchdog
    /\ [][WatchdogNext]_vars
    /\ \A l \in 1..MaxStarts : WF_vars(Runs(l))

SpecCacheSizes == InitCache /\ [][CacheSizesNext]_vars

InitMemo ==
    MemoInit /\ CallersIdle /\ MonitorIdle /\ BatchIdle /\ PoolIdle
    /\ WatchdogIdle /\ LimiterIdle
SpecMemo == InitMemo /\ [][MemoNext]_vars

InitCallers ==
    CacheInit /\ CallersInit /\ MonitorIdle /\ BatchIdle /\ PoolIdle
    /\ WatchdogIdle /\ LimiterIdle /\ MemoIdle
SpecCallers == InitCallers /\ [][CallersNext]_vars

InitLimiter ==
    LimiterInit /\ CacheIdle /\ MonitorIdle /\ BatchIdle /\ PoolIdle
    /\ WatchdogIdle /\ CallersIdle /\ MemoIdle
SpecLimiter == InitLimiter /\ [][LimiterNext]_vars

---------------------------------------------------------------------------
(* Properties of LRUCache *)

\* the step is a call of the cache operation op
IsCall(op) == nops' = nops + 1 /\ lastOp'.op = op

RECURSIVE SizeOf(_, _)
SizeOf(c, o) == IF o = <<>> THEN 0 ELSE c[Head(o)].size_bytes + SizeOf(c, Tail(o))

\* the list o from its (n+1)-th element on
Drop(o, n) == SubSeq(o, n + 1, Len(o))

\* the entries named in o, with a new entry of `size` bytes, respect both limits
Fits(c, o, size) ==
    /\ Len(o) < max_size
    /\ SizeOf(c, o) + size <= max_memory_bytes

\* C2. LRU eviction order: the access-order list is ordered by last use (every
\* hit of get and every set of a key makes it the most recent), and a set
\* evicts exactly the least recently used entries, from the head of the list
\* and in that order: as few as make the new entry fit, or all of them.
C2_LruEviction ==
    /\ [](\A i, j \in 1..Len(access_order) :
            i < j => cache[access_order[i]].last_accessed
                        <= cache[access_order[j]].last_accessed)
    /\ [][IsCall("set") =>
            LET key == lastOp'.key
                others == IF InList(access_order, key)
                          THEN ListRemove(access_order, key) ELSE access_order
                n == Len(lastOp'.evicted)
                size == cache'[key].size_bytes
            IN  /\ n <= Len(others)
                /\ lastOp'.evicted = SubSeq(others, 1, n)
                /\ access_order' = Append(Drop(others, n), key)
                /\ evictions' = evictions + n
                /\ \A m \in 0..(n - 1) : ~Fits(cache, Drop(others, m), size)
                /\ n < Len(others) => Fits(cache, Drop(others, n), size)
       ]_vars

\* max_size = 2: set(1), set(2), get(1), set(3) has evicted 2 and kept 1 and 3
C2_Witness ==
    /\ max_size = 2
    /\ lastOp.op = "set"
    /\ lastOp.key = 3
    /\ lastOp.evicted = <<2>>
    /\ access_order = <<1, 3>>
    /\ cache[1].access_count = 1
    /\ evictions = 1
    /\ nops = 4

\* C3. TTL expiry: a get of an entry whose expires_at is strictly in the past
\* returns None, removes the entry from the mapping and from the access-order
\* list, adds one to misses and leaves hits and evictions alone; an entry set
\* with no ttl under default_ttl = 0 has no expiry and a get of an entry
\* without expiry returns its value whatever the time.
C3_TtlExpiry ==
    [][/\ IsCall("get") =>
            LET key == lastOp'.key
            IN  /\ (key \in DOMAIN cache /\ cache[key].expires_at # None
                        /\ cache[key].expires_at[1] < now) =>
                      /\ lastOp'.ret = None
                      /\ key \notin DOMAIN cache'
                      /\ ~InList(access_order', key)
                      /\ misses' = misses + 1
                      /\ hits' = hits
                      /\ evictions' = evictions
                /\ (key \in DOMAIN cache /\ cache[key].expires_at = None) =>
                      lastOp'.ret = Some(cache[key].data)
       /\ (IsCall("set") /\ lastOp'.ttl = None /\ default_ttl = 0) =>
            cache'[lastOp'.key].expires_at = None
      ]_vars

\* a get has found its entry expired, and nothing was ever evicted
C3_Witness ==
    /\ lastOp.op = "get"
    /\ lastOp.path = "expired"
    /\ lastOp.ret = None
    /\ misses = 1
    /\ evictions = 0

\* C13. Idempotent clear: whatever the cache holds, a clear leaves no
\* entry, an empty access-order list and _current_memory = 0; a clear that
\* follows a clear changes none of the three; no clear changes hits, misses
\* or evictions.
C13_IdempotentClear ==
    [][IsCall("clear") =>
            /\ cache' = <<>>
            /\ access_order' = <<>>
            /\ current_memory' = 0
            /\ UNCHANGED <<hits, misses, evictions>>
            /\ lastOp.op = "clear" =>
                    UNCHANGED <<cache, access_order, current_memory>>
      ]_vars

\* set, get (a hit), clear, clear: the second clear has returned and the hit
\* is still counted
C13_Witness ==
    /\ lastOp.op = "clear"
    /\ lastOp.repeated
    /\ nops = 4
    /\ hits = 1
    /\ cache = <<>>
    /\ current_memory = 0

\* number of occurrences of x in the list o
Occurrences(o, x) == Cardinality({i \in 1..Len(o) : o[i] = x})

\* C14. Overwrite: after a set of a key that was present, the key is in the
\* mapping, with the new value, size and expiry, and once in the
\* access-order list, at its tail; _current_memory has lost the old size
\* (and the sizes of the entries evicted for the new one) and gained the new
\* size, and is the sum of the sizes stored; hits and misses are unchanged;
\* evictions counts the entries evicted for the new one and not the replaced
\* entry.
C14_Overwrite ==
    [][(IsCall("set") /\ lastOp'.key \in DOMAIN cache) =>
            LET key == lastOp'.key
                old == cache[key]
                new == cache'[key]
                out == lastOp'.evicted
            IN  /\ key \in DOMAIN cache'
                /\ new.data = lastOp'.value
                /\ new.size_bytes = _estimate_size(lastOp'.value)
                /\ new.expires_at = ExpiresAt(lastOp'.ttl)
                /\ new.access_count = 0
                /\ Occurrences(access_order', key) = 1
                /\ access_order'[Len(access_order')] = key
                /\ ~InList(out, key)
                /\ current_memory' = current_memory - old.size_bytes
                                        - SizeOf(cache, out) + new.size_bytes
                /\ current_memory' = SizeOf(cache', access_order')
                /\ DOMAIN cache' = {access_order'[i] : i \in 1..Len(access_order')}
                /\ UNCHANGED <<hits, misses>>
                /\ evictions' = evictions + Len(out)
      ]_vars

\* max_size = 2: set(1), set(2), get(1), then set(1) with a ttl has replaced
\* the entry of key 1 (its access count is 0 again and it has an expiry),
\* left the key once in the list, at the tail, and evicted nothing
C14_Witness ==
    /\ max_size = 2
    /\ default_ttl = 0
    /\ lastOp.op = "set"
    /\ lastOp.replaced
    /\ lastOp.key = 1
    /\ access_order = <<2, 1>>
    /\ cache[1].access_count = 0
    /\ cache[1].expires_at = Some(0)
    /\ current_memory = 16
    /\ hits = 1
    /\ evictions = 0
    /\ nops = 4

\* sum of the sizes of the entries of c with a key in ks
RECURSIVE SumSizes(_, _)
SumSizes(c, ks) ==
    IF ks = {} THEN 0
    ELSE LET k == CHOOSE x \in ks : TRUE
         IN  c[k].size_bytes + SumSizes(c, ks \ {k})

\* the list o without the keys in ks
Without(o, ks) == SelectSeq(o, LAMBDA k : k \notin ks)

\* C15. cleanup_expired: the call removes the entries whose expires_at is
\* before the clock and no other, returns their number, leaves every other
\* entry as it was, keeps the access order of the keys that stay, lowers
\* _current_memory by the sizes of the removed entries, and changes no
\* counter.
C15_CleanupExpired ==
    [][IsCall("cleanup_expired") =>
            LET gone == {k \in DOMAIN cache :
                            /\ cache[k].expires_at # None
                            /\ cache[k].expires_at[1] < now}
            IN  /\ DOMAIN cache' = (DOMAIN cache) \ gone
                /\ \A k \in DOMAIN cache' : cache'[k] = cache[k]
                /\ lastOp'.ret = Cardinality(gone)
                /\ access_order' = Without(access_order, gone)
                /\ current_memory' = current_memory - SumSizes(cache, gone)
                /\ UNCHANGED <<hits, misses, evictions>>
      ]_vars

\* max_size = 2, default_ttl = 0: set(1, ttl=0), set(2), a tick of the clock,
\* cleanup_expired: the call has removed key 1, returned 1 and kept key 2
C15_Witness ==
    /\ lastOp.op = "cleanup_expired"
    /\ lastOp.ret = 1
    /\ nkeys = 2
    /\ nops = 3
    /\ access_order = <<2>>
    /\ cache[2].expires_at = None
    /\ current_memory = 8
    /\ now = 1

\* C16. Hit-rate arithmetic: hits + misses is the number of get calls made
\* so far; hit_rate of get_stats is the quotient hits / (hits + misses)
\* when that number is positive, and 0 when it is 0.
C16_HitRate ==
    /\ hits + misses = ngets
    /\ hit_rate.den > 0
    /\ hits + misses > 0 => hit_rate.num * (hits + misses) = hits * hit_rate.den
    /\ hits + misses = 0 => hit_rate.num = 0

\* three gets, one of them a hit: the hit rate is one third
C16_Witness ==
    /\ ngets = 3
    /\ hits = 1
    /\ misses = 2
    /\ hit_rate = [num |-> 1, den |-> 3]

\* C22. Access-order consistency: in every state the keys of the
\* access-order list are the keys of the mapping, and every key is in the
\* list exactly once.
C22_AccessOrderConsistency ==
    /\ {access_order[i] : i \in 1..Len(access_order)} = DOMAIN cache
    /\ \A k \in DOMAIN cache : Occurrences(access_order, k) = 1
    /\ Len(access_order) = Cardinality(DOMAIN cache)

\* set(1), set(2), a hit on key 1 that moved it to the tail, delete(2): key
\* 1 alone is left, in the mapping and in the list
C22_Witness ==
    /\ lastOp.op = "delete"
    /\ lastOp.ret
    /\ lastOp.key = 2
    /\ hits = 1
    /\ nops = 4
    /\ DOMAIN cache = {1}
    /\ access_order = <<1>>

\* C23. get accounting: every get adds one to exactly one of hits and misses:
\* to hits when it returns the stored value, to misses when the key is
\* absent or its entry expired.  A hit adds one to the access count of its
\* entry and moves the key to the tail of the access-order list; it changes
\* no other entry, nor the keys stored, nor _current_memory.
C23_GetAccounting ==
    [][IsCall("get") =>
            LET key == lastOp'.key
                found == key \in DOMAIN cache /\ ~(cache[key].expires_at # None
                                                   /\ cache[key].expires_at[1] < now)
            IN  /\ \/ hits' = hits + 1 /\ misses' = misses
                   \/ hits' = hits /\ misses' = misses + 1
                /\ hits' = hits + 1 <=> found
                /\ found => lastOp'.ret = Some(cache[key].data)
                /\ ~found => lastOp'.ret = None
                /\ found =>
                      /\ DOMAIN cache' = DOMAIN cache
                      /\ cache'[key].access_count = cache[key].access_count + 1
                      /\ cache'[key].data = cache[key].data
                      /\ cache'[key].size_bytes = cache[key].size_bytes
                      /\ cache'[key].expires_at = cache[key].expires_at
                      /\ \A k \in DOMAIN cache \ {key} : cache'[k] = cache[k]
                      /\ access_order' = Append(Without(access_order, {key}), key)
                      /\ current_memory' = current_memory
                /\ key \notin DOMAIN cache =>
                      UNCHANGED <<cache, access_order, current_memory>>
      ]_vars

\* set(1), set(2), get(1), get(1): two hits on key 1, which is at the tail
\* with an access count of 2, while key 2 was never read
C23_Witness ==
    /\ lastOp.op = "get"
    /\ lastOp.path = "hit"
    /\ hits = 2
    /\ misses = 0
    /\ nops = 4
    /\ access_order = <<2, 1>>
    /\ cache[1].access_count = 2
    /\ cache[2].access_count = 0

\* C24. Eviction counter: evictions never decreases; it changes only in a
\* set, by the number of entries other than the set key that the set
\* removed; a get (one that removes an expired entry too), a delete, a
\* clear and a cleanup_expired leave it alone, and so does the removal of
\* the old entry of an overwritten key; delete returns True exactly when
\* the key was present.
C24_EvictionCounter ==
    [][/\ evictions' >= evictions
       /\ evictions' # evictions => IsCall("set")
       /\ IsCall("set") =>
            LET key == lastOp'.key
                others == (DOMAIN cache) \ {key}
            IN  /\ evictions' = evictions + Cardinality(others \ DOMAIN cache')
                /\ DOMAIN cache' \subseteq (DOMAIN cache) \cup {key}
       /\ (IsCall("get") \/ IsCall("delete") \/ IsCall("clear")
                \/ IsCall("cleanup_expired")) => evictions' = evictions
       /\ IsCall("delete") =>
            /\ lastOp'.ret = (lastOp'.key \in DOMAIN cache)
            /\ lastOp'.key \notin DOMAIN cache'
      ]_vars

\* max_size = 1: set(1), set(2) that evicted key 1, a tick, a get that
\* removed the expired entry, and the counter is still 1
C24_Witness ==
    /\ max_size = 1
    /\ lastOp.op = "get"
    /\ lastOp.path = "expired"
    /\ evictions = 1
    /\ misses = 1
    /\ nops = 3
    /\ cache = <<>>

\* C27. Memory accounting: in every state _current_memory is the sum of the
\* size_bytes of the entries stored, each the estimate of the value stored;
\* it is never negative, and it is 0 exactly when no stored entry has a
\* positive size.
C27_MemoryAccounting ==
    /\ current_memory = SumSizes(cache, DOMAIN cache)
    /\ \A k \in DOMAIN cache :
            cache[k].size_bytes = _estimate_size(cache[k].data)
    /\ current_memory >= 0
    /\ current_memory = 0 <=> \A k \in DOMAIN cache : cache[k].size_bytes = 0

\* an empty string and a number were stored and the number deleted: the
\* cache holds one entry, of size 0, and _current_memory is 0
C27_Witness ==
    /\ lastOp.op = "delete"
    /\ lastOp.ret
    /\ Cardinality(DOMAIN cache) = 1
    /\ \A k \in DOMAIN cache : cache[k].data = EmptyString
    /\ current_memory = 0
    /\ nops = 3

\* C25. Cache linearization: with several coroutines calling get, set,
\* delete, clear and cleanup_expired, at most one coroutine is inside a body
\* at any time and it holds the lock from the first part of the body to its
\* return; whenever no coroutine is inside a body, the mapping, the access
\* order, _current_memory and the three counters are those of the same calls
\* made one after the other in the order of their returns, and every call
\* has returned what it returns in that sequential run.
C25_CacheLinearization ==
    /\ Cardinality({c \in DOMAIN co : InBody(co[c])}) <= 1
    /\ \A c \in DOMAIN co : InBody(co[c]) => lock = c
    /\ lock # 0 => InBody(co[lock])
    /\ (co # <<>> /\ \A c \in DOMAIN co : ~InBody(co[c])) => Cur = seq
    /\ (co # <<>> /\ lastOp.op # "init") => lastOp.ret = lastOp.alone

\* the first coroutine has returned, the second is at the await of set's
\* make-space loop, with the lock and with the oldest key popped from the
\* list and still in the mapping, and the third has called and waits
C25_Witness ==
    /\ co # <<>>
    /\ co[1].pc = "returned"
    /\ co[2].pc = "set_evict"
    /\ lock = 2
    /\ co[3].pc = "waiting"
    /\ order = <<1>>
    /\ Cur # seq
    /\ Len(access_order) < Cardinality(DOMAIN cache)

---------------------------------------------------------------------------
(* Properties of BatchProcessor *)

\* request r is in batch b
InBatch(r, b) == \E i \in DOMAIN b : b[i] = r

\* request r has been taken into some batch
Dispatched(r) == \E n \in DOMAIN batches : InBatch(r, batches[n])

C5_NoStrandedRequest ==
    ~ /\ pending_requests # <<>>
      /\ ~processing
      /\ cycles = <<>>
      /\ scheduled = 0

\* C12. Single dispatch cycle: at most one _process_batch invocation is
\* past the guard at any time, and _processing is true exactly while one
\* is; a created _process_batch task that starts while a cycle is active
\* returns and leaves the queue, the cycle and the batches alone; when a
\* cycle ends, with its batch dispatched, on an empty queue or with an
\* error of one of its tasks, _processing is False.
C12_SingleCycle ==
    /\ [](Cardinality(DOMAIN cycles) <= 1)
    /\ [](processing <=> cycles # <<>>)
    /\ [][(scheduled' = scheduled - 1 /\ processing) =>
            UNCHANGED <<pending_requests, processing, cycles, ncycles, running,
                        batches, future>>
         ]_vars
    /\ [][(\E c \in DOMAIN cycles : c \notin DOMAIN cycles') =>
            /\ ~processing'
            /\ cycles' = <<>>
            /\ UNCHANGED <<pending_requests, running, future>>
         ]_vars

\* the first cycle took requests 1 and 2 and ended with the error of request
\* 1 while request 2 was running; request 2 is still running and a second
\* cycle has taken request 3
C12_Witness ==
    /\ batches = << <<1, 2>>, <<3>> >>
    /\ 1 \in crashed
    /\ 2 \in running
    /\ Cardinality(DOMAIN cycles) = 1
    /\ processing

\* C20. Maximum batch size: no batch snapshot holds more than batch_size
\* requests.
C20_MaxBatchSize ==
    \A n \in DOMAIN batches : Len(batches[n]) <= batch_size

\* the batches taken so far, one after the other
RECURSIVE Flatten(_)
Flatten(bs) == IF bs = <<>> THEN <<>> ELSE Head(bs) \o Flatten(Tail(bs))

\* C26. Exactly-once dispatch: the batches taken so far, followed by the
\* queue, are the requests in the order of their add_request calls, each
\* once: a request is in the queue or in exactly one batch, never lost, and
\* a batch keeps the enqueue order.  A task is created, and a callback
\* invoked, once per member of a batch; a batch is what the queue held when
\* it was taken and the queue is empty in the same step; a future that is
\* resolved is never resolved again, and only the task of a dispatched
\* request resolves one.
C26_ExactlyOnceDispatch ==
    /\ [](Flatten(batches) \o pending_requests
            = [r \in 1..Len(callback) |-> r])
    /\ [](\A r \in running \cup crashed : Dispatched(r))
    /\ [][batches' # batches =>
            /\ batches' = Append(batches, pending_requests)
            /\ pending_requests # <<>>
            /\ pending_requests' = <<>>
            /\ running' = running
                    \cup {pending_requests[i] : i \in DOMAIN pending_requests}
         ]_vars
    /\ [][\A r \in DOMAIN future :
            /\ ~IsPending(future[r]) => future'[r] = future[r]
            /\ future'[r] # future[r] =>
                    /\ r \in running /\ r \notin running'
                    /\ Dispatched(r)
         ]_vars

\* batch_size = 2: requests 1 and 2 were taken in one batch and resolved,
\* request 3 arrived during the dispatch and was taken by the next cycle
C26_Witness ==
    /\ batch_size = 2
    /\ batches = << <<1, 2>>, <<3>> >>
    /\ pending_requests = <<>>
    /\ future[1].kind = "result"
    /\ future[2].kind = "exception"
    /\ 3 \in running
    /\ IsPending(future[3])

---------------------------------------------------------------------------
(* Properties of AsyncPoolExecutor *)

\* the submit calls that hold a permit
Holders == {i \in TaskIds : pc[i] \in {"running", "completed"}}

\* the submit calls whose task is executing
Executing == {i \in TaskIds : pc[i] = "running"}

\* what submit call i has to hand to its caller: its task's value or error
Expected(i) ==
    IF tasks[i].kind = "result"
    THEN [kind |-> "result", v |-> tasks[i].v]
    ELSE [kind |-> "exception", v |-> i]

\* C6. Limiter admission: the tasks that have taken a permit and have not
\* completed are never more than max_workers (nor are the permits held, nor
\* the tasks in active_tasks).
C6_LimiterAdmission ==
    /\ Cardinality(Executing) <= max_workers
    /\ Cardinality(Holders) <= max_workers
    /\ Cardinality(active_tasks) <= max_workers

\* two permits, both taken by executing tasks, and a third task waiting
C6_Witness ==
    /\ max_workers = 2
    /\ Cardinality(Executing) = 2
    /\ \E i \in TaskIds : pc[i] = "waiting"

\* C7. Permit release: a permit is out exactly while its submit call holds
\* it, so each is given back once, on success and on failure; a finished
\* submit call hands on its task's own value or error; when every call has
\* finished all max_workers permits are free.
C7_PermitRelease ==
    /\ permits = max_workers - Cardinality(Holders)
    /\ \A i \in TaskIds : pc[i] = "done" => outcome[i] = Expected(i)
    /\ (\A i \in TaskIds : pc[i] = "done") => permits = max_workers

\* every call has finished, two of them with an error, and no permit is missing
C7_Witness ==
    /\ \A i \in TaskIds : pc[i] = "done"
    /\ Cardinality({i \in TaskIds : outcome[i].kind = "exception"}) = 2
    /\ permits = max_workers

\* the first submit call, in the order of finishing, that ended with an error
FirstFailure ==
    LET failed == {n \in DOMAIN finish_order :
                      tasks[finish_order[n]].kind = "exception"}
    IN  finish_order[CHOOSE n \in failed : \A m \in failed : n <= m]

\* C9 as claimed. submit_all hands control back, with a list or an error,
\* only when every task of its input has finished, and the error is that of
\* the first failure.
C9_ReturnsAfterAllFinished ==
    ~IsPending(returned) =>
        /\ \A i \in TaskIds : pc[i] = "done"
        /\ returned.kind = "exception" => returned = Expected(FirstFailure)

\* C9 as amended. submit_all returns its list only when every task has
\* finished, all of them with success; it raises as soon as gather sees the
\* first submit call that finished with an error, and raises that error,
\* whatever the other tasks are doing.
C9_SubmitAllCompletion ==
    /\ returned.kind = "result" =>
          \A i \in TaskIds : pc[i] = "done" /\ outcome[i].kind = "result"
    /\ returned.kind = "exception" =>
          /\ \E n \in DOMAIN finish_order :
                tasks[finish_order[n]].kind = "exception"
          /\ returned = Expected(FirstFailure)
          /\ pc[FirstFailure] = "done"

\* submit_all has raised the first task's error while the second task is
\* executing and the third is waiting for a permit
C9_Witness ==
    /\ max_workers = 2
    /\ returned = [kind |-> "exception", v |-> 1]
    /\ pc[2] = "running"
    /\ pc[3] = "waiting"

\* C10. submit_all ordering: the list submit_all returns has, at place i,
\* the value of the i-th task of its input.
C10_SubmitAllOrdering ==
    returned.kind = "result" =>
        /\ DOMAIN returned.v = TaskIds
        /\ \A i \in TaskIds : returned.v[i] = tasks[i].v

\* two permits for three tasks; the second task finished before the first,
\* their values differ, and submit_all has returned
C10_Witness ==
    /\ max_workers = 2
    /\ returned.kind = "result"
    /\ finish_order = <<2, 1, 3>>
    /\ tasks[1].v # tasks[2].v

\* C11. Shutdown: shutdown(wait=True) returns only in a state without
\* in-flight tasks (none executing, none holding a permit, active_tasks
\* empty); shutdown(wait=False) returns in the step of its call and changes
\* nothing of the tasks (none is cancelled); the tasks in flight when it
\* returned all run to their end, hand on their own outcome and give back
\* their permits.
C11_Shutdown ==
    /\ [][(shut.pc # "returned" /\ shut'.pc = "returned" /\ shut'.wait) =>
            /\ active_tasks' = {}
            /\ Executing' = {}
            /\ Holders' = {}
            /\ permits' = max_workers
         ]_vars
    /\ [][(shut.pc = "none" /\ shut'.pc # "none" /\ ~shut'.wait) =>
            /\ shut'.pc = "returned"
            /\ shut'.seen = active_tasks
            /\ UNCHANGED <<pc, permits, active_tasks, callbacks, finish_order>>
         ]_vars
    /\ [](\A i \in shut.seen : pc[i] \in {"running", "completed", "done"})
    /\ (shut.pc = "returned") ~>
            /\ \A i \in shut.seen : /\ pc[i] = "done"
                                     /\ outcome[i] = Expected(i)
                                     /\ i \notin active_tasks
            /\ permits = max_workers - Cardinality(Holders)

\* shutdown(wait=False) returned while two tasks were in flight; both have
\* finished since, one of them with an error, and all permits are free
C11_Witness ==
    /\ shut.pc = "returned"
    /\ ~shut.wait
    /\ Cardinality(shut.seen) = 2
    /\ \A i \in shut.seen : pc[i] = "done"
    /\ \E i \in shut.seen : outcome[i].kind = "exception"
    /\ permits = max_workers

\* C30. Shutdown covers queued work: a shutdown(wait=True) that found tasks
\* in active_tasks and slept (every submit call had started by then: a call
\* without a task was waiting for a permit) returns only when every task
\* passed to submit has completed, the waiting ones included.
C30_ShutdownCoversQueued ==
    [][(shut.pc = "sleeping" /\ shut'.pc = "returned") =>
            \A i \in TaskIds : pc'[i] = "done"
      ]_vars

---------------------------------------------------------------------------
(* Properties of PerformanceMonitor *)

\* the last n elements of s, all of s when it has fewer
Newest(s, n) == IF Len(s) <= n THEN s ELSE SubSeq(s, Len(s) - n + 1, Len(s))

\* C8. Recorder bounding: for every capacity max_metrics >= 0, after each
\* record_operation the monitor stores at most max_metrics samples, they are
\* the most recently recorded ones in recording order, and total_operations
\* is max_metrics once more than max_metrics samples were recorded.
C8_RecorderBound ==
    /\ Len(metrics) <= max_metrics
    /\ metrics = Newest(recorded, max_metrics)
    /\ Len(recorded) > max_metrics => total_operations = max_metrics


\* the step is the end of call c of a wrapped function
Ends(c) == c \in DOMAIN calls /\ calls[c].pc = "running" /\ calls'[c].pc = "done"

\* the step appends the one sample smp, and metrics ends with it
AppendsOne(operation_name, success, error) ==
    /\ Len(recorded') = Len(recorded) + 1
    /\ LET smp == recorded'[Len(recorded')]
       IN  /\ smp.operation_name = operation_name
           /\ smp.metadata.success = success
           /\ smp.metadata.error = error
           /\ metrics' # <<>>
           /\ metrics'[Len(metrics')] = smp
    /\ SubSeq(recorded', 1, Len(recorded)) = recorded

\* C17 as claimed. Every call of a wrapped function that has ended has
\* appended exactly one sample.
C17_OneSamplePerCall ==
    \A c \in DOMAIN calls : calls[c].pc = "done" => calls[c].appended = 1

\* C17 as amended. A call of a wrapped function that returns appends one
\* sample, with success true, and hands its caller the function's value; a
\* call that raises an Exception appends one sample, with success false and
\* the text of the error, and raises that error; a call that ends with an
\* exception that is not an Exception (a cancellation) appends no sample and
\* raises that exception.  No call hands on anything but the function's own
\* outcome, and a sample is appended under the function's name.
C17_RecorderWrapper ==
    [][\A c \in DOMAIN calls : Ends(c) =>
            /\ calls[c].does = "return" =>
                  /\ AppendsOne(calls[c].operation_name, TRUE, None)
                  /\ calls'[c].handed = [kind |-> "result", v |-> c]
            /\ calls[c].does = "raise" =>
                  /\ AppendsOne(calls[c].operation_name, FALSE, Some(c))
                  /\ calls'[c].handed = [kind |-> "exception", v |-> c]
            /\ calls[c].does = "cancelled" =>
                  /\ UNCHANGED <<recorded, metrics>>
                  /\ calls'[c].handed = [kind |-> "cancelled", v |-> c]
            /\ \A d \in DOMAIN calls : d # c => calls'[d] = calls[d]
      ]_vars

\* two calls have ended: the first raised and has its failure sample, the
\* second was cancelled and nothing was recorded for it
C17_Witness ==
    /\ Len(calls) = 2
    /\ calls[1].does = "raise"
    /\ calls[1].handed = [kind |-> "exception", v |-> 1]
    /\ calls[2].does = "cancelled"
    /\ calls[2].handed = [kind |-> "cancelled", v |-> 2]
    /\ Len(recorded) = 1
    /\ recorded[1].metadata = [success |-> FALSE, error |-> Some(1)]
    /\ metrics = recorded

---------------------------------------------------------------------------
(* Properties of ResourceManager *)

\* task l takes a step
Steps(l) == l \in DOMAIN loops /\ loops'[l] # loops[l]

\* C18. Watchdog stop: a loop that comes to the head of its while statement
\* when the flag is False ends there, without another check; a loop that
\* has ended does nothing more; no loop ends in another way than by leaving
\* its while statement; and if from some moment on the flag stays False (no
\* start_monitoring after the last stop_monitoring), every loop ends.
C18_WatchdogStop ==
    /\ [][\A l \in DOMAIN loops :
            /\ (AtHead(l) /\ ~monitoring /\ Steps(l)) =>
                  /\ loops'[l].pc = "terminated"
                  /\ loops'[l].checks = loops[l].checks
            /\ loops[l].pc = "terminated" => ~Steps(l)
            /\ (loops[l].pc # "terminated" /\ loops'[l].pc = "terminated") =>
                  ~monitoring /\ AtHead(l)
         ]_vars
    /\ [](\A l \in DOMAIN loops : loops[l].pc # "crashed")
    /\ <>[](~monitoring) => <>[](\A l \in DOMAIN loops : loops[l].pc = "terminated")

\* one loop, stopped after its second check, has ended
C18_Witness ==
    /\ ~monitoring
    /\ Len(loops) = 1
    /\ loops[1].pc = "terminated"
    /\ loops[1].checks = 2

\* C19. Watchdog failure containment: a check in which memory sampling,
\* collection or CPU sampling raises leaves the loop asleep for the backoff
\* time, which is longer than the time between two checks, and leaves the
\* flag alone; no loop is ever ended by an error; a loop that wakes from
\* its backoff while the flag is True makes its next check.
C19_FailureContainment ==
    /\ [][\A l \in DOMAIN loops :
            /\ (Steps(l) /\ loops'[l].checks = loops[l].checks + 1
                    /\ loops'[l].last \in ErrorOutcomes) =>
                  /\ loops'[l].pc = "sleeping"
                  /\ loops'[l].sleep = Backoff
                  /\ Backoff > Interval
                  /\ UNCHANGED monitoring
            /\ (Steps(l) /\ loops[l].pc = "sleeping" /\ loops[l].sleep = Backoff
                    /\ monitoring) =>
                  loops'[l].checks = loops[l].checks + 1
         ]_vars
    /\ [](\A l \in DOMAIN loops :
            loops[l].pc \in {"created", "sleeping", "terminated"})

\* a loop whose first check failed has made a second check after its
\* backoff, which went well, and the flag is still True
C19_Witness ==
    /\ monitoring
    /\ Len(loops) = 1
    /\ loops[1].checks = 2
    /\ loops[1].errors = 1
    /\ loops[1].last = "ok"
    /\ loops[1].pc = "sleeping"
    /\ loops[1].sleep = Interval

\* a _monitor_resources task that has made a check and sleeps until its next
Checking(l) == loops[l].pc = "sleeping" /\ loops[l].checks > 0

\* C28. Single watchdog loop: whatever the sequence of start_monitoring and
\* stop_monitoring calls, at most one _monitor_resources loop is making its
\* checks at any time.
C28_SingleWatchdogLoop ==
    Cardinality({l \in DOMAIN loops : Checking(l)}) <= 1

---------------------------------------------------------------------------
(* Properties of timed_cache *)

\* C29. Memoization single-call: while nothing has expired (the clock has
\* not moved) and nothing was evicted, the calls made with the same
\* arguments, concurrent ones included, have invoked the wrapped function at
\* most once in total and those that have returned all returned the same
\* result.
C29_MemoSingleCall ==
    (now = 0 /\ evictions = 0) =>
        \A a \in Keys :
            /\ Occurrences(invoked, a) <= 1
            /\ \A v, w \in DOMAIN wrapped :
                    (wrapped[v].args = a /\ wrapped[w].args = a
                        /\ wrapped[v].pc = "returned" /\ wrapped[w].pc = "returned")
                    => wrapped[v].result = wrapped[w].result

---------------------------------------------------------------------------
(* Properties of RateLimiter *)

\* the is_allowed calls of an identifier that returned True at a time in the
\* interval that starts at a and is shorter than time_window
AllowedFrom(identifier, a) ==
    {n \in 1..Len(served) :
        /\ served[n].identifier = identifier
        /\ served[n].ret
        /\ a <= served[n].t
        /\ served[n].t - a < time_window}

\* the timestamps an identifier would have after the first n calls if the
\* calls of the other identifiers had never been made
RECURSIVE Alone(_, _)
Alone(identifier, n) ==
    IF n = 0 THEN <<>>
    ELSE LET before == Alone(identifier, n - 1)
             c == served[n]
             kept == SelectSeq(before, LAMBDA r : c.t - r < time_window)
         IN  IF c.identifier # identifier THEN before
             ELSE IF Len(kept) < max_requests THEN Append(kept, c.t)
             ELSE kept

\* C21: the calls that returned True inside any interval shorter than
\* time_window number at most max_requests per identifier; every call
\* returns what it would return had the other identifiers made no call; a
\* call that returns False records no timestamp and no call touches the
\* list of another identifier.
C21_RateLimit ==
    /\ [](\A i \in Identifiers : \A a \in 0..MaxClock :
             Cardinality(AllowedFrom(i, a)) <= max_requests)
    /\ [](\A n \in 1..Len(served) :
             LET c == served[n]
                 before == Alone(c.identifier, n - 1)
             IN  c.ret = (Len(SelectSeq(before,
                                 LAMBDA r : c.t - r < time_window))
                          < max_requests))
    /\ [][served' # served =>
            LET c == served'[Len(served')]
                old == IF c.identifier \in DOMAIN requests
                       THEN requests[c.identifier] ELSE <<>>
            IN  /\ DOMAIN requests' = DOMAIN requests \cup {c.identifier}
                /\ \A j \in DOMAIN requests \ {c.identifier} :
                       requests'[j] = requests[j]
                /\ ~c.ret =>
                       /\ Len(requests'[c.identifier]) <= Len(old)
                       /\ \A k \in 1..Len(requests'[c.identifier]) :
                              InList(old, requests'[c.identifier][k])
                /\ c.ret =>
                       requests'[c.identifier][Len(requests'[c.identifier])]
                           = current_time]_vars

\* a limit of one in a window of two: the first identifier is served at 0,
\* refused at 1 while the second is served, and served again at 2
C21_Witness ==
    /\ max_requests = 1
    /\ time_window = 2
    /\ served = << [identifier |-> 1, t |-> 0, ret |-> TRUE],
                   [identifier |-> 1, t |-> 1, ret |-> FALSE],
                   [identifier |-> 2, t |-> 1, ret |-> TRUE],
                   [identifier |-> 1, t |-> 2, ret |-> TRUE] >>
    /\ requests[1] = <<2>>
    /\ requests[2] = <<1>>

===========================================================================
